---- MODULE Spec2Model ----
(***************************************************************************)
(* Weight-tracking API (src/api_views.py, src/serializers.py): the request *)
(* handlers over the shared Weight table, and the congratulations task     *)
(* that the video-verification handler hands to the task queue.            *)
(*                                                                         *)
(* Weights are fixed-point numbers in hundredths of a unit.  A file name   *)
(* or URL is a sequence of one-character strings; None and the empty       *)
(* string, which every test in the source treats alike (`if x:`), are the  *)
(* empty sequence.  A row's creation time is its primary key's order.      *)
(*                                                                         *)
(* Requests are served one at a time, each handler as one step, except the *)
(* video-verification handler, which is split at its writes (the insert,   *)
(* the competitors, the task queue, the save) because the task worker runs *)
(* concurrently with it.  A handler is a function of the table and the     *)
(* request: <Handler>_outcomes is the set of its possible results, and the *)
(* handler's action takes one of them.                                     *)
(***************************************************************************)
EXTENDS Integers, Sequences, FiniteSets, TLC

\* ------------------------------------------------------------------ bounds
MaxWeights == 2      \* rows ever inserted into the Weight table
MaxDate == 2         \* dates are 1..MaxDate; MaxDate is today

\* --------------------------------------------------------------- constants
MAIN_COMPETITION == 1

Users == {"u1", "u2"}
Competitors == {"c1", "c2"}
UnknownCompetitor == "c9"
Platforms == {"mobile"}

None == << >>
PngUpper == <<"a", ".", "P", "N", "G">>
Gif == <<"a", ".", "g", "i", "f">>
S3Url == <<"s", "3">>
VideoUrl == <<"v">>

Today == MaxDate
Dates == 1..MaxDate
FutureDate == MaxDate + 1
SubmittedWeights == {95, 100}
InvalidWeight == 0 - 1

VARIABLES
    objects,    \* the Weight table: a set of rows, each with its primary key
    next_id,    \* the table's next primary key
    inflight,   \* the video-verification request being served, or Idle
    queue,      \* every celery_send_congratulations_email.delay(id), in order
    consumed,   \* how many queued tasks the worker has run
    response    \* the last response sent: status, message and body

vars == <<objects, next_id, inflight, queue, consumed, response>>

\* ------------------------------------------------- collaborators (not in src)

\* request.user.weight_unit: the user's preferred unit
weight_unit(user) == IF user = "u1" THEN "kg" ELSE "lb"

\* teammate.team.challenge.id
challenge(teammate) == IF teammate = "c1" THEN MAIN_COMPETITION ELSE MAIN_COMPETITION + 1

\* utils.convert_weight_to_kgs_and_lbs(unit, weight): <<kilograms, pounds>>
convert_weight_to_kgs_and_lbs(unit, weight) ==
    IF unit = "kg"
    THEN <<weight * 100, (weight * 220462) \div 1000>>
    ELSE <<(weight * 45359) \div 1000, weight * 100>>

\* utils.validate_date: the date is not in the future
validate_date(date) == date <= Today

\* utils.validate_weight: the weight is a positive number
validate_weight(weight) == weight > 0

\* utils.validate_competitor: every id names a competitor
validate_competitor(competitor_ids) == competitor_ids \subseteq Competitors

\* core.permissions.BelongsToUser.has_object_permission
BelongsToUser(user, obj) == obj.participant = user

\* Weight.existing.before_date(user, date), over the table `table`
before_date(table, user, date) ==
    {w \in table : w.participant = user /\ w.date_of_measurement <= date}

\* ------------------------------------------------------------------ helpers

Pks == {w.pk : w \in objects}
Get(pk) == CHOOSE w \in objects : w.pk = pk

\* queryset.order_by('-created')
RECURSIVE order_by_created_desc(_)
order_by_created_desc(S) ==
    IF S = {} THEN << >>
    ELSE LET newest == CHOOSE w \in S : \A v \in S : v.pk <= w.pk
         IN  <<newest>> \o order_by_created_desc(S \ {newest})

Lower(ch) ==
    CASE ch = "P" -> "p" [] ch = "N" -> "n" [] ch = "G" -> "g"
      [] ch = "J" -> "j" [] ch = "E" -> "e" [] OTHER -> ch

\* os.path.splitext(name)[1]
splitext_ext(name) ==
    LET dots == {i \in 1..Len(name) : name[i] = "."}
        last == IF dots = {} THEN 0 ELSE CHOOSE i \in dots : \A j \in dots : j <= i
    IN  IF last = 0 \/ \A j \in 1..(last - 1) : name[j] = "."
        THEN << >>
        ELSE SubSeq(name, last, Len(name))

RECURSIVE strip(_)
strip(s) ==
    IF s = << >> THEN s
    ELSE IF Head(s) = " " THEN strip(Tail(s))
    ELSE IF s[Len(s)] = " " THEN strip(SubSeq(s, 1, Len(s) - 1))
    ELSE s

\* os.path.splitext(name)[1][1:].strip().lower()
extension(name) ==
    LET ext == splitext_ext(name)
        cut == IF ext = << >> THEN ext ELSE Tail(ext)
        s == strip(cut)
    IN  [i \in 1..Len(s) |-> Lower(s[i])]

AllowedExtensions == {<<"j", "p", "g">>, <<"j", "p", "e", "g">>, <<"p", "n", "g">>}

\* Weight.objects.create(...)
NewWeight(pk, participant, verified, method, date, kgs_lbs, verifier_file) ==
    [pk |-> pk, participant |-> participant, verified |-> verified,
     method |-> method, date_of_measurement |-> date,
     weight_kilograms |-> kgs_lbs[1], weight_in_pounds |-> kgs_lbs[2],
     verifier_file |-> verifier_file, video_link |-> None, competitors |-> {}]

Reply(op, status, detail, data) ==
    [op |-> op, status |-> status, detail |-> detail, data |-> data]

\* what a handler leaves behind: its response and the table
Outcome(reply, table, pk, serving) ==
    [response |-> reply, objects |-> table, next_id |-> pk, inflight |-> serving]

Unchanged(reply) == Outcome(reply, objects, next_id, inflight)
Inserted(reply, row) == Outcome(reply, objects \cup {row}, next_id + 1, inflight)
Full == next_id > MaxWeights

Idle == [pc |-> "idle"]

Serve(outcomes) ==
    /\ inflight = Idle
    /\ \E out \in outcomes :
          /\ response' = out.response
          /\ objects' = out.objects
          /\ next_id' = out.next_id
          /\ inflight' = out.inflight
    /\ UNCHANGED <<queue, consumed>>

Init ==
    /\ objects = {}
    /\ next_id = 1
    /\ inflight = Idle
    /\ queue = << >>
    /\ consumed = 0
    /\ response = Reply("none", 0, "", {})

\* --------------------------------------------------------------- list

\* get_queryset without its filter on the participant
get_queryset_unfiltered(user) == objects

\* RetrieveWeighinAPIView.get_queryset (the order of the rows is not modelled)
get_queryset(user) == {w \in objects : w.participant = user}

\* RetrieveWeighinAPIView (ListAPIView.get): the body is the rows' primary keys
List_outcomes(user) ==
    {Unchanged(Reply("list", 200, "", {w.pk : w \in get_queryset(user)}))}

List(user) == Serve(List_outcomes(user))

\* --------------------------------------------------------- measurement intake

\* WeightSerializer's fields and validate(): the first error, or "" when valid.
\* The date validator runs on a date that is present (partial=True).
WeightSerializer_errors(data) ==
    IF "date_of_measurement" \in DOMAIN data /\ ~validate_date(data.date_of_measurement)
    THEN "invalid date"
    ELSE IF ~validate_weight(data.weight) THEN "invalid weight"
    ELSE ""

\* WeightSerializer.create(validated_data): save(**kwargs) merges its keyword
\* arguments into validated_data before create is called
WeightSerializer_create(user, validated_data) ==
    NewWeight(next_id, user, FALSE, "mobile", validated_data.date_of_measurement,
              convert_weight_to_kgs_and_lbs(validated_data.weight_unit, validated_data.weight),
              None)

\* CreateWeighinAPIView.post
CreateWeighin_outcomes(user, weighin_type, data) ==
    LET validated == [weight |-> data.weight, weight_unit |-> weight_unit(user)]
        errors == WeightSerializer_errors(data)
    IN  IF errors # ""
        THEN {Unchanged(Reply("create", 400, errors, {}))}
        ELSE IF weighin_type = "self-reported"
        THEN IF Full THEN {}
             ELSE {Inserted(Reply("create", 200, "", {}),
                            WeightSerializer_create(user,
                                [verified |-> FALSE, method |-> "web",
                                 date_of_measurement |-> Today] @@ validated))}
        ELSE IF weighin_type = "verified"
        THEN IF "date_of_measurement" \notin DOMAIN data
             THEN \* validated_data['date_of_measurement'] raises KeyError
                  {Unchanged(Reply("create", 500, "KeyError", {}))}
             ELSE IF Full THEN {}
             ELSE {Inserted(Reply("create", 200, "", {}),
                            WeightSerializer_create(user,
                                [verified |-> TRUE, method |-> "web",
                                 date_of_measurement |-> data.date_of_measurement]
                                @@ validated))}
        ELSE \* neither branch saves; the handler raises nothing and returns
             \* Response(serializer.data), whose rendering of the unsaved data
             \* either succeeds or fails inside the framework
             {Unchanged(Reply("create", status, "", {})) : status \in {200, 500}}

CreateWeighin(user, weighin_type, data) ==
    Serve(CreateWeighin_outcomes(user, weighin_type, data))

\* UnverifiedWeightSerializer._validate_weigh_in_type: the error, or ""
validate_weigh_in_type(weigh_in_type) ==
    IF weigh_in_type = "missing" THEN "Weigh-in type is required"
    ELSE IF weigh_in_type \notin {"self-reported", "verified"} THEN "Invalid weigh-in type"
    ELSE ""

\* UnverifiedWeightSerializer's fields and validate(): the first error, or ""
UnverifiedWeightSerializer_errors(weighin_type, data) ==
    IF ~validate_date(data.date_of_measurement) THEN "invalid date"
    ELSE IF validate_weigh_in_type(weighin_type) # "" THEN validate_weigh_in_type(weighin_type)
    ELSE IF ~validate_weight(data.weight) THEN "invalid weight"
    ELSE ""

\* UnverifiedWeightSerializer.save
UnverifiedWeightSerializer_save(user, data) ==
    NewWeight(next_id, user, FALSE, "mobile", data.date_of_measurement,
              convert_weight_to_kgs_and_lbs(weight_unit(user), data.weight),
              data.weight_image)

\* to_representation with the operands of the difference swapped
to_representation_swapped(user, date, table) ==
    LET weigh_ins == before_date(table, user, date)
        ordered == order_by_created_desc(weigh_ins)
        new_weigh_in == ordered[1]
        old_weigh_in == ordered[2]
        weight_difference ==
            IF weight_unit(user) = "kg"
            THEN new_weigh_in.weight_kilograms - old_weigh_in.weight_kilograms
            ELSE new_weigh_in.weight_in_pounds - old_weigh_in.weight_in_pounds
        abs(x) == IF x < 0 THEN 0 - x ELSE x
    IN  IF Cardinality(weigh_ins) > 1
        THEN [first_entry |-> FALSE, weight_difference |-> abs(weight_difference),
              lost_weight |-> IF weight_difference >= 0 THEN "lost" ELSE "gained",
              weight_unit |-> weight_unit(user)]
        ELSE [first_entry |-> TRUE, weight_difference |-> 0, lost_weight |-> "0",
              weight_unit |-> weight_unit(user)]

\* UnverifiedWeightSerializer.to_representation, over the table `table`
to_representation(user, date, table) ==
    LET weigh_ins == before_date(table, user, date)
        ordered == order_by_created_desc(weigh_ins)
        new_weigh_in == ordered[1]
        old_weigh_in == ordered[2]
        weight_difference ==
            IF weight_unit(user) = "kg"
            THEN old_weigh_in.weight_kilograms - new_weigh_in.weight_kilograms
            ELSE old_weigh_in.weight_in_pounds - new_weigh_in.weight_in_pounds
        abs(x) == IF x < 0 THEN 0 - x ELSE x
    IN  IF Cardinality(weigh_ins) > 1
        THEN [first_entry |-> FALSE, weight_difference |-> abs(weight_difference),
              lost_weight |-> IF weight_difference >= 0 THEN "lost" ELSE "gained",
              weight_unit |-> weight_unit(user)]
        ELSE [first_entry |-> TRUE, weight_difference |-> 0, lost_weight |-> "0",
              weight_unit |-> weight_unit(user)]

\* CreateUnverifiedWeighinAPIView.post
CreateUnverified_outcomes(user, weighin_type, data) ==
    LET errors == UnverifiedWeightSerializer_errors(weighin_type, data)
        row == UnverifiedWeightSerializer_save(user, data)
    IN  IF errors # ""
        THEN {Unchanged(Reply("create_unverified", 400, errors, {}))}
        ELSE IF Full THEN {}
        ELSE {Inserted(Reply("create_unverified", 200, "",
                             to_representation(user, data.date_of_measurement,
                                               objects \cup {row})),
                       row)}

CreateUnverified(user, weighin_type, data) ==
    Serve(CreateUnverified_outcomes(user, weighin_type, data))

\* ------------------------------------------------------------ update, delete

\* UpdateWeightSerializer._image_has_correct_format: the error, or ""
image_has_correct_format(image) ==
    IF image # None /\ extension(image) \notin AllowedExtensions
    THEN "Images must be in PNG or JPG or JPEG format"
    ELSE ""

\* UpdateWeightSerializer's fields and validate(): the first error, or ""
UpdateWeightSerializer_errors(data) ==
    IF ~validate_date(data.date_of_measurement) THEN "invalid date"
    ELSE IF image_has_correct_format(data.weight_image) # ""
    THEN image_has_correct_format(data.weight_image)
    ELSE IF ~validate_weight(data.weight) THEN "invalid weight"
    ELSE ""

\* update that stores the new kilograms and keeps the old pounds
UpdateWeightSerializer_update_kilograms_only(instance, user, data) ==
    LET kgs_lbs == convert_weight_to_kgs_and_lbs(weight_unit(user), data.weight)
    IN  [instance EXCEPT
            !.date_of_measurement = data.date_of_measurement,
            !.weight_kilograms = kgs_lbs[1],
            !.verifier_file = IF data.weight_image # None THEN data.weight_image
                              ELSE IF data.remove_image THEN None
                              ELSE @]

\* update that tests remove_image before the new image
UpdateWeightSerializer_update_remove_first(instance, user, data) ==
    LET kgs_lbs == convert_weight_to_kgs_and_lbs(weight_unit(user), data.weight)
    IN  [instance EXCEPT
            !.date_of_measurement = data.date_of_measurement,
            !.weight_kilograms = kgs_lbs[1],
            !.weight_in_pounds = kgs_lbs[2],
            !.verifier_file = IF data.remove_image THEN None
                              ELSE IF data.weight_image # None THEN data.weight_image
                              ELSE @]

\* UpdateWeightSerializer.update
UpdateWeightSerializer_update(instance, user, data) ==
    LET kgs_lbs == convert_weight_to_kgs_and_lbs(weight_unit(user), data.weight)
    IN  [instance EXCEPT
            !.date_of_measurement = data.date_of_measurement,
            !.weight_kilograms = kgs_lbs[1],
            !.weight_in_pounds = kgs_lbs[2],
            !.verifier_file = IF data.weight_image # None THEN data.weight_image
                              ELSE IF data.remove_image THEN None
                              ELSE @]

\* UpdateWeight (UpdateAPIView.update): get_object with its permission check,
\* then the serializer
Update_outcomes(user, pk, data) ==
    IF pk \notin Pks
    THEN {Unchanged(Reply("update", 404, "Not found.", {}))}
    ELSE IF ~BelongsToUser(user, Get(pk))
    THEN {Unchanged(Reply("update", 403, "permission denied", {}))}
    ELSE IF UpdateWeightSerializer_errors(data) # ""
    THEN {Unchanged(Reply("update", 400, UpdateWeightSerializer_errors(data), {}))}
    ELSE {Outcome(Reply("update", 200, "", {}),
                  (objects \ {Get(pk)})
                      \cup {UpdateWeightSerializer_update(Get(pk), user, data)},
                  next_id, inflight)}

Update(user, pk, data) == Serve(Update_outcomes(user, pk, data))

\* DeleteWeightAPIView (DestroyAPIView.destroy)
Delete_outcomes(user, pk) ==
    IF pk \notin Pks
    THEN {Unchanged(Reply("delete", 404, "Not found.", {}))}
    ELSE IF ~BelongsToUser(user, Get(pk))
    THEN {Unchanged(Reply("delete", 403, "permission denied", {}))}
    ELSE {Outcome(Reply("delete", 204, "", {}), objects \ {Get(pk)}, next_id, inflight)}

Delete(user, pk) == Serve(Delete_outcomes(user, pk))

\* --------------------------------------------------- video-verified intake

\* validate() without its test of the two proofs
VideoVerificationSerializer_errors_unchecked(data) ==
    IF ~validate_date(data.date) THEN "invalid date"
    ELSE IF ~validate_competitor(data.competitor_ids) THEN "unknown competitor"
    ELSE IF ~validate_weight(data.weight) THEN "invalid weight"
    ELSE ""

\* VideoVerificationSerializer's fields and validate(): the first error, or ""
VideoVerificationSerializer_errors(data) ==
    IF ~validate_date(data.date) THEN "invalid date"
    ELSE IF ~validate_competitor(data.competitor_ids) THEN "unknown competitor"
    ELSE IF ~validate_weight(data.weight) THEN "invalid weight"
    ELSE IF data.s3_file_url = None /\ data.video_url = None
    THEN "Please attach a video file or include a video link."
    ELSE ""

\* VideoVerificationSerializer.create, lines 83-95: the row as inserted
VideoVerificationSerializer_row(user, data) ==
    NewWeight(next_id, user, TRUE, data.platform, data.date,
              convert_weight_to_kgs_and_lbs(weight_unit(user), data.weight), None)

\* lines 97-100: the proof, set on the in-memory measurement
with_proof(measurement, data) ==
    IF data.s3_file_url # None
    THEN [measurement EXCEPT !.verifier_file = data.s3_file_url]
    ELSE [measurement EXCEPT !.video_link = data.video_url]

\* ApiVideoVerificationView (CreateAPIView.create) up to Weight.objects.create;
\* the response follows the save
VideoPost_outcomes(user, data) ==
    LET errors == VideoVerificationSerializer_errors(data)
        row == VideoVerificationSerializer_row(user, data)
    IN  IF errors # ""
        THEN {Unchanged(Reply("video", 400, errors, {}))}
        ELSE IF Full THEN {}
        ELSE {Outcome(response, objects \cup {row}, next_id + 1,
                      [pc |-> "created", measurement |-> with_proof(row, data),
                       competitors |-> data.competitor_ids])}

VideoPost(user, data) == Serve(VideoPost_outcomes(user, data))

\* line 107 testing for any competitor instead of one of the main competition
in_main_competition_any(competitors) == competitors # {}

\* line 107
in_main_competition(competitors) ==
    MAIN_COMPETITION \in {challenge(teammate) : teammate \in competitors}

\* lines 102-104: measurement.competitors.add(*teammate_id_list) writes the rows
\* of the many-to-many table
VideoAdd ==
    /\ inflight.pc = "created"
    /\ inflight.competitors # {}
    /\ objects' = (objects \ {Get(inflight.measurement.pk)})
            \cup {[Get(inflight.measurement.pk) EXCEPT !.competitors = inflight.competitors]}
    /\ inflight' = [inflight EXCEPT !.pc = "added"]
    /\ UNCHANGED <<next_id, queue, consumed, response>>

\* lines 106-108: celery_send_congratulations_email.delay(measurement.id)
VideoDelay ==
    /\ inflight.pc = "added"
    /\ in_main_competition(inflight.competitors)
    /\ queue' = Append(queue, inflight.measurement.pk)
    /\ inflight' = [inflight EXCEPT !.pc = "delayed"]
    /\ UNCHANGED <<objects, next_id, consumed, response>>

\* line 110: measurement.save() writes every column of the in-memory measurement;
\* the competitors are rows of another table
VideoSave ==
    LET pk == inflight.measurement.pk
    IN
    /\ \/ inflight.pc = "created" /\ inflight.competitors = {}
       \/ inflight.pc = "added" /\ ~in_main_competition(inflight.competitors)
       \/ inflight.pc = "delayed"
    /\ objects' = (objects \ {Get(pk)})
                    \cup {[inflight.measurement EXCEPT !.competitors = Get(pk).competitors]}
    /\ inflight' = Idle
    /\ response' = Reply("video", 201, "", {})
    /\ UNCHANGED <<next_id, queue, consumed>>

\* the worker runs the next queued celery_send_congratulations_email(id)
TaskRun ==
    /\ consumed < Len(queue)
    /\ consumed' = consumed + 1
    /\ UNCHANGED <<objects, next_id, inflight, queue, response>>

\* ------------------------------------------------------------------ requests

WeighinTypes == {"missing", "self-reported", "verified", "other"}

\* date and weight vary in full where the delta report reads them (the
\* unverified intake); the other requests vary what their own handler reads.
\* An invalid weight and a future date are submitted to the first intake, an
\* unknown competitor with a video.
CreateData ==
    [weight : {100}] \cup [weight : {100}, date_of_measurement : {1}]
    \cup {[weight |-> InvalidWeight, date_of_measurement |-> Today],
          [weight |-> 100, date_of_measurement |-> FutureDate]}

UnverifiedData ==
    [weight : SubmittedWeights, date_of_measurement : Dates, weight_image : {None}]
    \cup [weight : {100}, date_of_measurement : {Today}, weight_image : {PngUpper, Gif}]

UpdateData ==
    [weight : {95}, date_of_measurement : {1},
     weight_image : {None, PngUpper}, remove_image : BOOLEAN]
    \cup {[weight |-> 95, date_of_measurement |-> 1,
           weight_image |-> Gif, remove_image |-> FALSE]}

VideoData ==
    [weight : {100}, date : {Today}, s3_file_url : {None, S3Url},
     video_url : {None, VideoUrl}, competitor_ids : {{}, {"c2"}, {"c1", "c2"}},
     platform : Platforms]
    \cup {[weight |-> 100, date |-> Today, s3_file_url |-> S3Url,
           video_url |-> None, competitor_ids |-> {UnknownCompetitor}, platform |-> "mobile"]}

Next ==
    \/ \E user \in Users : List(user)
    \/ \E user \in Users, t \in WeighinTypes, data \in CreateData :
          CreateWeighin(user, t, data)
    \/ \E user \in Users, t \in WeighinTypes, data \in UnverifiedData :
          CreateUnverified(user, t, data)
    \/ \E user \in Users, pk \in 1..MaxWeights, data \in UpdateData :
          Update(user, pk, data)
    \/ \E user \in Users, pk \in 1..MaxWeights : Delete(user, pk)
    \/ \E user \in Users, data \in VideoData : VideoPost(user, data)
    \/ VideoAdd
    \/ VideoDelay
    \/ VideoSave
    \/ TaskRun

Spec == Init /\ [][Next]_vars

\* -------------------------------------------------------------------- claims

Row(table, pk) == CHOOSE w \in table : w.pk = pk
Rejected(status) == status >= 400 /\ status <= 499
Unsupported(image) == image # None /\ extension(image) \notin AllowedExtensions

\* C1: in every reachable state, a list request by a user returns only that
\* user's measurements, and an update or delete request on a measurement of
\* another participant is rejected and leaves the table unchanged.
C1_OwnMeasurementsOnly ==
    /\ \A user \in Users : \A out \in List_outcomes(user) :
          \A pk \in out.response.data :
              pk \in Pks /\ Row(objects, pk).participant = user
    /\ \A w \in objects : \A user \in Users \ {w.participant} :
          /\ \A data \in UpdateData : \A out \in Update_outcomes(user, w.pk, data) :
                Rejected(out.response.status) /\ out.objects = objects
          /\ \A out \in Delete_outcomes(user, w.pk) :
                Rejected(out.response.status) /\ out.objects = objects

\* C1 witness: an update or delete of another participant's measurement was
\* refused.
C1_Witness ==
    /\ response.op \in {"update", "delete"}
    /\ response.status = 403
    /\ objects # {}

\* C2: every successful intake stores a measurement whose verified flag is the
\* submission mode: FALSE for self-reported, TRUE for verified.
C2_VerifiedMatchesMode ==
    [][/\ response'.op = "create" =>
            \A user \in Users, t \in {"self-reported", "verified"}, data \in CreateData :
                (CreateWeighin(user, t, data) /\ response'.status = 200) =>
                    \E w \in objects' \ objects : w.verified = (t = "verified")
       /\ response'.op = "create_unverified" =>
            \A user \in Users, t \in {"self-reported", "verified"}, data \in UnverifiedData :
                (CreateUnverified(user, t, data) /\ response'.status = 200) =>
                    \E w \in objects' \ objects : w.verified = (t = "verified")
      ]_vars

\* C3: in every reachable state, a video-verification submission with neither
\* s3_file_url nor video_url is rejected with a validation error: no row is
\* inserted and no request is left in flight to attach competitors or to
\* enqueue the congratulations task.
C3_NoProofRejected ==
    \A user \in Users, data \in VideoData :
        (data.s3_file_url = None /\ data.video_url = None) =>
            /\ VideoPost_outcomes(user, data) # {}
            /\ \A out \in VideoPost_outcomes(user, data) :
                  /\ out.response.op = "video"
                  /\ out.response.status = 400
                  /\ out.objects = objects
                  /\ out.next_id = next_id
                  /\ out.inflight = inflight

\* C3 witness: the last response is the rejection of a submission without proof.
C3_Witness ==
    /\ response.op = "video"
    /\ response.status = 400
    /\ response.detail = "Please attach a video file or include a video link."

\* C4: a create-unverified or update request whose weight_image has an
\* unsupported extension is rejected and stores or modifies nothing.
C4_UnsupportedImageRejected ==
    [][/\ response'.op = "create_unverified" =>
            \A user \in Users, t \in WeighinTypes, data \in UnverifiedData :
                (Unsupported(data.weight_image) /\ CreateUnverified(user, t, data)) =>
                    Rejected(response'.status) /\ objects' = objects
       /\ response'.op = "update" =>
            \A user \in Users, pk \in Pks, data \in UpdateData :
                (Unsupported(data.weight_image) /\ Update(user, pk, data)) =>
                    Rejected(response'.status) /\ objects' = objects
      ]_vars

\* C5: an intake request whose weighin_type is missing or unknown gets a 4xx
\* response and stores nothing, in both intake handlers.
C5_BadWeighinTypeRejected ==
    [][/\ response'.op = "create" =>
            \A user \in Users, t \in {"missing", "other"}, data \in CreateData :
                CreateWeighin(user, t, data) =>
                    Rejected(response'.status) /\ objects' = objects
       /\ response'.op = "create_unverified" =>
            \A user \in Users, t \in {"missing", "other"}, data \in UnverifiedData :
                CreateUnverified(user, t, data) =>
                    Rejected(response'.status) /\ objects' = objects
      ]_vars

\* the report the claim C6 describes, for `user` and the submitted `date` over
\* the table after the intake
C6_Report(user, date, table, report) ==
    LET mine == {w \in table : w.participant = user /\ w.date_of_measurement <= date}
        value(w) == IF weight_unit(user) = "kg" THEN w.weight_kilograms
                    ELSE w.weight_in_pounds
        latest(S) == CHOOSE w \in S : \A v \in S : v.pk <= w.pk
        new == latest(mine)
        old == latest(mine \ {new})
    IN  /\ report.weight_difference >= 0
        /\ IF Cardinality(mine) > 1
           THEN /\ report.first_entry = FALSE
                /\ value(old) > value(new) =>
                      /\ report.lost_weight = "lost"
                      /\ report.weight_difference = value(old) - value(new)
                /\ value(old) < value(new) =>
                      /\ report.lost_weight = "gained"
                      /\ report.weight_difference = value(new) - value(old)
                /\ value(old) = value(new) => report.weight_difference = 0
                /\ (weight_unit(user) = "kg" /\ value(old) = 10000 /\ value(new) = 9500) =>
                      report.lost_weight = "lost" /\ report.weight_difference = 500
           ELSE /\ report.first_entry = TRUE
                /\ report.weight_difference = 0

C7_ConsistentUnits ==
    \A w \in objects :
        \E weight \in SubmittedWeights :
            <<w.weight_kilograms, w.weight_in_pounds>> =
                convert_weight_to_kgs_and_lbs(weight_unit(w.participant), weight)

\* C7 witness: a verified measurement stored with 100 lb was updated to 95 lb.
C7_Witness ==
    /\ response.op = "update"
    /\ response.status = 200
    /\ \E w \in objects : w.verified /\ w.weight_in_pounds = 9500

\* C8: a video-verified submission enqueues the congratulations task exactly
\* when one of its competitors is in the main competition, once, with the id
\* of its measurement; nothing else is enqueued.
C8_CongratulationsIffMain ==
    [][/\ queue' # queue =>
            /\ inflight.pc # "idle"
            /\ queue' = Append(queue, inflight.measurement.pk)
            /\ \A i \in 1..Len(queue) : queue[i] # inflight.measurement.pk
            /\ \E c \in inflight.competitors : challenge(c) = MAIN_COMPETITION
       /\ (inflight.pc # "idle" /\ inflight'.pc = "idle") =>
            LET pk == inflight.measurement.pk
                sent == {i \in 1..Len(queue') : queue'[i] = pk}
            IN  /\ response' = Reply("video", 201, "", {})
                /\ Cardinality(sent) =
                      IF \E c \in inflight.competitors : challenge(c) = MAIN_COMPETITION
                      THEN 1 ELSE 0
      ]_vars

\* C8 witness: a submission has succeeded and its task is in the queue.
C8_Witness ==
    /\ response.op = "video"
    /\ response.status = 201
    /\ inflight = Idle
    /\ \E w \in objects, i \in 1..Len(queue) : queue[i] = w.pk /\ w.competitors # {}

\* C9: in every reachable state, a successful update stores the conversions of
\* the submitted weight, sets the proof to the new image if one is given, else
\* clears it if remove_image is set, else keeps it; it keeps the participant,
\* the verified flag, the method and the competitors, and changes no other
\* measurement.
C9_UpdateFrame ==
    \A user \in Users, pk \in Pks, data \in UpdateData :
        \A out \in Update_outcomes(user, pk, data) :
            out.response.status = 200 =>
                /\ \E w \in out.objects : w.pk = pk
                /\ LET old == Row(objects, pk)
                       new == Row(out.objects, pk)
                   IN  /\ <<new.weight_kilograms, new.weight_in_pounds>> =
                             convert_weight_to_kgs_and_lbs(weight_unit(user), data.weight)
                       /\ new.verifier_file =
                             IF data.weight_image # None THEN data.weight_image
                             ELSE IF data.remove_image THEN None
                             ELSE old.verifier_file
                       /\ new.participant = old.participant
                       /\ new.verified = old.verified
                       /\ new.method = old.method
                       /\ new.competitors = old.competitors
                /\ {w \in out.objects : w.pk # pk} = {w \in objects : w.pk # pk}

\* C9 witness: an update has replaced the proof of a verified measurement with
\* competitors by a new image, beside another measurement.
C9_Witness ==
    /\ response.op = "update"
    /\ response.status = 200
    /\ Cardinality(objects) > 1
    /\ \E w \in objects :
          /\ w.verified
          /\ w.competitors # {}
          /\ w.verifier_file = PngUpper

\* C10: when the congratulations task runs for a measurement whose handler is
\* still in flight, the stored row already has the proof and the competitors
\* the handler is storing.
C10_PersistedBeforeTask ==
    [][TaskRun =>
            \A w \in objects :
                (inflight.pc # "idle" /\ w.pk = queue[consumed + 1]
                    /\ inflight.measurement.pk = w.pk) =>
                    /\ w.verifier_file = inflight.measurement.verifier_file
                    /\ w.video_link = inflight.measurement.video_link
                    /\ w.competitors = inflight.competitors
      ]_vars

====
